---- MODULE Spec2Model ----
(***************************************************************************)
(* Model of gitlab-merger-bot's two mechanisms:                            *)
(*   - Queue (Queue.appendJob and the drain loop it starts), and           *)
(*   - GitlabApi.sendRawRequest (the retry loop around fetch).             *)
(* The two are independent; Spec is the queue, SpecRaw is the request.     *)
(***************************************************************************)
EXTENDS Integers, Sequences, FiniteSets, TLC

\* ---------------------------------------------------------------- bounds
\* Total number of appendJob calls in one behaviour.
MaxAppends == 3

\* Depth of the synchronous call stack: job bodies that are running before
\* their first suspension, each called from inside the one below it.
MaxDepth == 2

\* Number of sendRawRequest calls in one behaviour.
MaxCalls == 2

\* Range of the status codes handed to validateResponseStatus directly.
MinStatus == 100

MaxStatus == 599

\* ------------------------------------------------------------ job keys
\* A job key is a JavaScript string, modelled as its sequence of characters.
MR42 == <<"m", "r", "-", "4", "2">>
MR43 == <<"m", "r", "-", "4", "3">>
K9 == <<"9">>
K10 == <<"1", "0">>

JobIds == {MR42, MR43, K9, K10}

Digits == <<"0", "1", "2", "3", "4", "5", "6", "7", "8", "9">>

IsDigit(c) == \E i \in DOMAIN Digits : Digits[i] = c

DigitValue(c) == (CHOOSE i \in DOMAIN Digits : Digits[i] = c) - 1

\* Order of two digit strings of the same length: the order of their values.
RECURSIVE DigitsLeq(_, _)
DigitsLeq(a, b) ==
    IF a = <<>> THEN TRUE
    ELSE IF DigitValue(a[1]) # DigitValue(b[1]) THEN DigitValue(a[1]) < DigitValue(b[1])
    ELSE DigitsLeq(Tail(a), Tail(b))

\* Numeric order of two canonical decimal strings (no leading zeros).
IndexLeq(a, b) == Len(a) < Len(b) \/ (Len(a) = Len(b) /\ DigitsLeq(a, b))

\* 2^32 - 2, the largest array index.
MaxArrayIndex == <<"4", "2", "9", "4", "9", "6", "7", "2", "9", "4">>

\* An ECMAScript array index: the canonical decimal form of an integer in
\* 0 .. 2^32 - 2.  Own property keys that are array indices are listed first,
\* in ascending numeric order; all other string keys follow in the order in
\* which the properties were created.
IsArrayIndex(s) ==
    /\ Len(s) >= 1
    /\ \A i \in DOMAIN s : IsDigit(s[i])
    /\ (Len(s) > 1 => s[1] # "0")
    /\ IndexLeq(s, MaxArrayIndex)

\* ------------------------------------------------------------ variables
VARIABLES
    jobs,          \* this.jobs: sequence of [key, job] in property-creation order
    promise,       \* this.promise: 0 = undefined, else the drain loop whose promise it is
    loops,         \* one record per promise executor (drain loop) ever started
    stack,         \* synchronous call stack: job bodies running before their first suspension
    submitted,     \* number of appendJob calls so far; call n submits job body n
    appends,       \* history: one record per appendJob call
    started,       \* history: job bodies in the order their execution began
    failures,      \* history: one record per job body that threw
    firstThrown,   \* history: per drain loop, the first job whose body threw
    called,        \* history: number of onEmptyQueue invocations
    rawPc,         \* sendRawRequest: "idle", "fetch", "sleep", "returned" or "thrown"
    retryCounter,  \* sendRawRequest: retryCounter
    outcome,       \* sendRawRequest: what the latest `await fetch(...)` ended in
    result,        \* sendRawRequest: the response returned or the error thrown
    fetches,       \* history: fetch calls issued by the current call
    sleeps,        \* history: sleep calls made by the current call
    seen,          \* history: the classes of outcome the attempts of the current call ended in
    calls,         \* history: number of sendRawRequest calls begun
    apiPc,         \* caller of sendRawRequest: "idle", "await", "validate", "json", "returned", "thrown"
    expect,        \* caller: "single", "multi" or "status" (which method is calling)
    responseStatus, \* caller: response.status of the response it holds, 0 = none
    verdict,       \* caller: what validateResponseStatus did with that response
    data,          \* caller: the decoded body, `await response.json()`
    reply          \* caller: what the method returned or threw

queueVars == <<jobs, promise, loops, stack, submitted>>
historyVars == <<appends, started, failures, firstThrown, called>>
rawVars == <<rawPc, retryCounter, outcome, result, fetches, sleeps, seen, calls>>
apiVars == <<apiPc, expect, responseStatus, verdict, data, reply>>
vars == <<jobs, promise, loops, stack, submitted, appends, started, failures, firstThrown,
          called,
          rawPc, retryCounter, outcome, result, fetches, sleeps, seen, calls,
          apiPc, expect, responseStatus, verdict, data, reply>>

\* ------------------------------------------------- the jobs object
HasKey(m, k) == \E i \in DOMAIN m : m[i].key = k

Lookup(m, k) == m[CHOOSE i \in DOMAIN m : m[i].key = k].job

\* Mutant: assigning to an existing property moves it behind the others.
SetJobMovesToEnd(m, k, j) ==
    Append(SelectSeq(m, LAMBDA e : e.key # k), [key |-> k, job |-> j])

\* this.jobs[jobId] = job: an existing property keeps its place, a new one
\* is created last.
SetJob(m, k, j) ==
    IF HasKey(m, k)
    THEN [i \in DOMAIN m |-> IF m[i].key = k THEN [key |-> k, job |-> j] ELSE m[i]]
    ELSE Append(m, [key |-> k, job |-> j])

\* delete this.jobs[k]
DeleteJob(m, k) == SelectSeq(m, LAMBDA e : e.key # k)

RECURSIVE AscendingIndices(_)
AscendingIndices(S) ==
    IF S = {} THEN <<>>
    ELSE LET least == CHOOSE k \in S : \A o \in S : IndexLeq(k, o)
         IN <<least>> \o AscendingIndices(S \ {least})

RECURSIVE KeysOf(_)
KeysOf(m) == IF m = <<>> THEN <<>> ELSE <<m[1].key>> \o KeysOf(Tail(m))

\* Object.keys(this.jobs)
ObjectKeys(m) ==
    AscendingIndices({m[i].key : i \in {n \in DOMAIN m : IsArrayIndex(m[n].key)}})
        \o KeysOf(SelectSeq(m, LAMBDA e : ~IsArrayIndex(e.key)))

\* ------------------------------------------------- drain loops
Executing(l) == loops[l].pc \in {"prefix", "awaiting"}

ExecutingLoops == {l \in DOMAIN loops : Executing(l)}

ExecutingKeys == {loops[l].key : l \in ExecutingLoops}

HasStarted(j) == \E i \in DOMAIN started : started[i] = j

\* Mutant: the loop ends without `this.promise = undefined`.
LoopIterationKeepsPromise(l, m, ls, frame) ==
    LET jobIds == ObjectKeys(m) IN
    IF Len(jobIds) = 0
    THEN /\ promise' = promise
         /\ loops' = [ls EXCEPT ![l].pc = "ended",
                                ![l].key = <<>>,
                                ![l].job = 0,
                                ![l].state = IF @ = "pending" THEN "fulfilled" ELSE @,
                                ![l].then = IF ls[l].state = "pending" THEN "queued" ELSE @]
         /\ UNCHANGED stack
    ELSE /\ loops' = [ls EXCEPT ![l].pc = "prefix",
                                ![l].key = jobIds[1],
                                ![l].job = Lookup(m, jobIds[1])]
         /\ stack' = Append(stack, [loop |-> l, kind |-> frame])
         /\ UNCHANGED promise

\* One pass of `while (true)` up to the call `currentJob()`: either the
\* mapping is empty and the loop ends (lines 19-24), or the first key's job
\* is read and called (lines 26-29), which runs the job body synchronously
\* up to its first suspension.
LoopIteration(l, m, ls, frame) ==
    LET jobIds == ObjectKeys(m) IN
    IF Len(jobIds) = 0
    THEN /\ promise' = 0
         /\ loops' = [ls EXCEPT ![l].pc = "ended",
                                ![l].key = <<>>,
                                ![l].job = 0,
                                ![l].state = IF @ = "pending" THEN "fulfilled" ELSE @,
                                ![l].then = IF ls[l].state = "pending" THEN "queued" ELSE @]
         /\ UNCHANGED stack
    ELSE /\ loops' = [ls EXCEPT ![l].pc = "prefix",
                                ![l].key = jobIds[1],
                                ![l].job = Lookup(m, jobIds[1])]
         /\ stack' = Append(stack, [loop |-> l, kind |-> frame])
         /\ UNCHANGED promise

NewLoop == [pc |-> "new", key |-> <<>>, job |-> 0, state |-> "pending",
            error |-> 0, then |-> "none"]

\* The calls of appendJob a behaviour may still make: fewer than maxAppends
\* made so far, and a call that starts a drain loop nested in fewer than
\* maxDepth job bodies that have not reached their first suspension.
MayAppend(maxAppends, maxDepth) ==
    /\ submitted < maxAppends
    /\ (promise = 0 => Len(stack) < maxDepth)

\* appendJob(jobId, job), called from the top level (empty stack), from a job
\* body after a suspension (empty stack), or from a job body before its first
\* suspension (the body on top of the stack).  When this.promise is undefined
\* the promise executor runs synchronously inside the call, up to `await
\* currentJob()`; the assignment to this.promise happens when the executor
\* returns (see firstSuspension).
appendJob(jobId) ==
    /\ submitted' = submitted + 1
    /\ jobs' = SetJob(jobs, jobId, submitted + 1)
    /\ IF promise = 0
       THEN LoopIteration(Len(loops) + 1, jobs', Append(loops, NewLoop), "append")
       ELSE UNCHANGED <<promise, loops, stack>>

\* The job body on top of the stack reaches its first suspension (an async
\* function always suspends `await currentJob()` at least once, also when the
\* body throws or returns at once).  The loop's executor suspends with it.
\* If the executor was entered from appendJob, `new Promise(...)` now returns,
\* `.then(this.onEmptyQueue)` is registered and this.promise is assigned
\* (line 17), and appendJob returns.
firstSuspension ==
    /\ stack # <<>>
    /\ LET frame == stack[Len(stack)] IN
       /\ loops' = [loops EXCEPT ![frame.loop].pc = "awaiting"]
       /\ stack' = SubSeq(stack, 1, Len(stack) - 1)
       /\ promise' = IF frame.kind = "append" THEN frame.loop ELSE promise
    /\ UNCHANGED <<jobs, submitted>>

\* Mutant: every reject(e) replaces the promise's outcome.
jobSettlesLatchesLast(l, ok) ==
    /\ stack = <<>>
    /\ l \in DOMAIN loops
    /\ loops[l].pc = "awaiting"
    /\ jobs' = DeleteJob(jobs, loops[l].key)
    /\ LoopIteration(l, jobs',
           [loops EXCEPT
               ![l].state = IF ~ok THEN "rejected" ELSE @,
               ![l].error = IF ~ok THEN loops[l].job ELSE @],
           "drain")
    /\ UNCHANGED submitted

\* The promise returned by currentJob() settles and drain loop l resumes
\* (lines 28-35 and the next pass of the loop): a rejection is passed to
\* reject(e), which only the first time settles the loop's promise; then
\* `delete this.jobs[jobIds[0]]`, then the next iteration.
jobSettles(l, ok) ==
    /\ stack = <<>>
    /\ l \in DOMAIN loops
    /\ loops[l].pc = "awaiting"
    /\ jobs' = DeleteJob(jobs, loops[l].key)
    /\ LoopIteration(l, jobs',
           [loops EXCEPT
               ![l].state = IF ~ok /\ @ = "pending" THEN "rejected" ELSE @,
               ![l].error = IF ~ok /\ loops[l].state = "pending" THEN loops[l].job ELSE @],
           "drain")
    /\ UNCHANGED submitted

\* The reaction registered by `.then(this.onEmptyQueue)` runs: only a
\* fulfilled promise queues it.
onEmptyQueue(l) ==
    /\ stack = <<>>
    /\ l \in DOMAIN loops
    /\ loops[l].then = "queued"
    /\ loops' = [loops EXCEPT ![l].then = "called"]
    /\ UNCHANGED <<jobs, promise, stack, submitted>>

\* ------------------------------------------------- observation
\* What an observer of the queue writes down at each step.  The history
\* variables are written, never read, by the steps above.
LogStart(l) ==
    started' = IF l \in DOMAIN loops' /\ loops'[l].pc = "prefix"
               THEN Append(started, loops'[l].job)
               ELSE started

LogAppend(jobId) ==
    LET prev == IF HasKey(jobs, jobId) THEN Lookup(jobs, jobId) ELSE 0 IN
    appends' = Append(appends,
        [key |-> jobId, job |-> submitted + 1, prev |-> prev,
         prevStarted |-> (prev # 0 /\ HasStarted(prev)),
         idle |-> (promise = 0),
         depth |-> Len(stack),
         running |-> ExecutingKeys,
         nStarted |-> Len(started)])

LogFailure(l, ok) ==
    failures' = IF ok THEN failures
                ELSE Append(failures,
                         [job |-> loops[l].job, key |-> loops[l].key, loop |-> l,
                          pending |-> {jobs[i] : i \in {n \in DOMAIN jobs :
                                           /\ jobs[n].key # loops[l].key
                                           /\ \A o \in ExecutingLoops :
                                                  loops[o].job # jobs[n].job}},
                          at |-> Len(started)])

\* The first body that threw in each drain loop, as seen from outside: the
\* observer does not look at the loop's promise.
LogFirstThrown(l, ok) ==
    firstThrown' = IF ok \/ \E t \in firstThrown : t.loop = l
                   THEN firstThrown
                   ELSE firstThrown \cup {[loop |-> l, job |-> loops[l].job]}

\* ------------------------------------------------- sendRawRequest
numberOfRequestRetries == 20

\* Status codes a response may carry.
Statuses == {200, 204, 299, 300, 401, 403, 404, 499, 500, 503}

\* e.type of a node-fetch FetchError, or of any other thrown object.
ErrorTypes == {"system", "request-timeout", "max-redirect"}

NoOutcome == [kind |-> "none"]

Response(status) == [kind |-> "response", status |-> status]

\* An error raised by fetch: fetchError is `e instanceof FetchError`.
TransportError(fetchError, type) ==
    [kind |-> "error", fetchError |-> fetchError, type |-> type]

\* new Error(`Unexpected status code ${response.status} after ... retries`)
StatusError(status) ==
    [kind |-> "error", fetchError |-> FALSE, type |-> "status", status |-> status]

Outcomes ==
    {Response(st) : st \in Statuses}
        \cup {TransportError(f, t) : f \in BOOLEAN, t \in ErrorTypes}

\* Mutant: the attempt bound of the catch clause is off by one.
RetryAfterErrorOffByOne(e, counter) ==
    /\ counter <= numberOfRequestRetries
    /\ e.fetchError
    /\ e.type \in {"system", "request-timeout"}

\* The catch clause's condition (lines 247-251).
RetryAfterError(e, counter) ==
    /\ counter < numberOfRequestRetries
    /\ e.fetchError
    /\ e.type \in {"system", "request-timeout"}

\* Mutant: status 500 itself is not retried.
IsServerErrorAbove500(response) == response.status > 500

\* Mutant: client errors are retried too.
IsServerErrorOrClientError(response) == response.status >= 400

\* The branch on the response (line 234).
IsServerError(response) == response.status >= 500

\* The class of an attempt's outcome, in the words of the retry policy.
Class(o) ==
    IF o.kind = "response"
    THEN IF o.status >= 500 THEN "server-error" ELSE "response"
    ELSE IF o.fetchError /\ o.type \in {"system", "request-timeout"}
         THEN "transient" ELSE "other-error"

Retryable(o) == Class(o) \in {"server-error", "transient"}

\* catch (e) { ... } of lines 246-259: sleep and continue, or rethrow.
Catch(e) ==
    IF RetryAfterError(e, retryCounter)
    THEN /\ rawPc' = "sleep"
         /\ sleeps' = sleeps + 1
         /\ result' = result
    ELSE /\ rawPc' = "thrown"
         /\ sleeps' = sleeps
         /\ result' = e

\* sendRawRequest is called: the loop is entered, retryCounter++ and the
\* first fetch is issued (lines 207-233).
sendRawRequest ==
    /\ rawPc \in {"idle", "returned", "thrown"}
    /\ calls < MaxCalls
    /\ calls' = calls + 1
    /\ retryCounter' = 0 + 1
    /\ fetches' = 1
    /\ sleeps' = 0
    /\ seen' = {}
    /\ outcome' = NoOutcome
    /\ result' = NoOutcome
    /\ rawPc' = "fetch"

\* Mutant: when the attempts are used up the last 5xx response is returned.
fetchSettlesReturnsLast(o) ==
    /\ rawPc = "fetch"
    /\ outcome' = o
    /\ seen' = seen \cup {Class(o)}
    /\ IF o.kind = "response"
       THEN IF IsServerError(o) /\ retryCounter < numberOfRequestRetries
            THEN /\ rawPc' = "sleep"
                 /\ sleeps' = sleeps + 1
                 /\ result' = result
            ELSE /\ rawPc' = "returned"
                 /\ sleeps' = sleeps
                 /\ result' = o
       ELSE Catch(o)
    /\ UNCHANGED <<retryCounter, fetches, calls>>

\* `await fetch(requestUrl, options)` ends in o (lines 233-259).
fetchSettles(o) ==
    /\ rawPc = "fetch"
    /\ outcome' = o
    /\ seen' = seen \cup {Class(o)}
    /\ IF o.kind = "response"
       THEN IF IsServerError(o)
            THEN IF retryCounter >= numberOfRequestRetries
                 THEN Catch(StatusError(o.status))
                 ELSE /\ rawPc' = "sleep"
                      /\ sleeps' = sleeps + 1
                      /\ result' = result
            ELSE /\ rawPc' = "returned"
                 /\ sleeps' = sleeps
                 /\ result' = o
       ELSE Catch(o)
    /\ UNCHANGED <<retryCounter, fetches, calls>>

\* `await sleep(sleepTimeout)` ends; `continue`, retryCounter++ and the next
\* fetch is issued (lines 241-242 or 254-255, then 230-233).
sleepEnds ==
    /\ rawPc = "sleep"
    /\ retryCounter' = retryCounter + 1
    /\ fetches' = fetches + 1
    /\ rawPc' = "fetch"
    /\ UNCHANGED <<outcome, result, sleeps, seen, calls>>

\* ------------------------------------------------- callers of sendRawRequest
\* The methods that send a request: sendRequestWithSingleResponse ("single"),
\* sendRequestWithMultiResponse ("multi") and rebaseMergeRequest ("status"),
\* which only validates the status.
Methods == {"single", "multi", "status"}

StatusCodes == MinStatus .. MaxStatus

\* A decoded JSON body: its kind, and for an object whether it has an `id`.
Bodies ==
    {[type |-> t, id |-> FALSE] : t \in {"string", "number", "boolean", "null", "array", "object"}}
        \cup {[type |-> "object", id |-> TRUE]}

NoData == [type |-> "none", id |-> FALSE]

\* typeof data
TypeOf(d) == IF d.type \in {"null", "array", "object"} THEN "object" ELSE d.type

\* Array.isArray(data)
IsArray(d) == d.type = "array"

NoVerdict == [error |-> "none yet"]

Valid == [error |-> "none"]

Failure(message) == [error |-> message]

UnexpectedStatus(status) == [error |-> "Unexpected status code", status |-> status]

\* Mutant: the upper end of the accepted range is off by one.
validateResponseStatusAccepts300(status) ==
    IF status = 401 THEN Failure("Unauthorized")
    ELSE IF status = 403 THEN Failure("Forbidden")
    ELSE IF status < 200 \/ status > 300 THEN UnexpectedStatus(status)
    ELSE Valid

\* validateResponseStatus(response): the error it throws, or Valid when it
\* returns (lines 193-205).
validateResponseStatus(status) ==
    IF status = 401 THEN Failure("Unauthorized")
    ELSE IF status = 403 THEN Failure("Forbidden")
    ELSE IF status < 200 \/ status >= 300 THEN UnexpectedStatus(status)
    ELSE Valid

\* The condition of line 172.
SingleIsInvalid(d) == TypeOf(d) # "object" /\ ~d.id

\* The condition of line 185.
MultiIsInvalid(d) == ~IsArray(d)

\* A method calls `await this.sendRawRequest(url, method, body)`.
sendRequest(method) ==
    /\ apiPc \in {"idle", "returned", "thrown"}
    /\ sendRawRequest
    /\ apiPc' = "await"
    /\ expect' = method
    /\ responseStatus' = 0
    /\ verdict' = NoVerdict
    /\ data' = NoData
    /\ reply' = NoVerdict

\* sendRawRequest returned: the method holds the response (lines 163, 168, 181).
rawReturns ==
    /\ apiPc = "await"
    /\ rawPc = "returned"
    /\ apiPc' = "validate"
    /\ responseStatus' = result.status
    /\ UNCHANGED <<expect, verdict, data, reply>>

\* sendRawRequest threw: the error propagates out of the method.
rawThrows ==
    /\ apiPc = "await"
    /\ rawPc = "thrown"
    /\ apiPc' = "thrown"
    /\ reply' = Failure("sendRawRequest")
    /\ UNCHANGED <<expect, responseStatus, verdict, data>>

\* this.validateResponseStatus(response) (lines 164, 169, 182).
validate ==
    /\ apiPc = "validate"
    /\ verdict' = validateResponseStatus(responseStatus)
    /\ IF verdict' # Valid
       THEN apiPc' = "thrown" /\ reply' = verdict'
       ELSE IF expect = "status"
            THEN apiPc' = "returned" /\ reply' = Valid
            ELSE apiPc' = "json" /\ reply' = reply
    /\ UNCHANGED <<expect, responseStatus, data>>

\* `await response.json()` yields d, then the shape check (lines 171-177
\* and 184-190).
jsonDecoded(d) ==
    /\ apiPc = "json"
    /\ data' = d
    /\ IF (expect = "single" /\ SingleIsInvalid(d)) \/ (expect = "multi" /\ MultiIsInvalid(d))
       THEN apiPc' = "thrown" /\ reply' = Failure("Invalid response")
       ELSE apiPc' = "returned" /\ reply' = [error |-> "none", data |-> d]
    /\ UNCHANGED <<expect, responseStatus, verdict>>

ApiInit ==
    /\ apiPc = "idle"
    /\ expect = "status"
    /\ responseStatus = 0
    /\ verdict = NoVerdict
    /\ data = NoData
    /\ reply = NoVerdict

NextRaw ==
    \/ \E method \in Methods :
          sendRequest(method) /\ UNCHANGED queueVars /\ UNCHANGED historyVars
    \/ \E o \in Outcomes :
          fetchSettles(o) /\ UNCHANGED queueVars /\ UNCHANGED historyVars /\ UNCHANGED apiVars
    \/ sleepEnds /\ UNCHANGED queueVars /\ UNCHANGED historyVars /\ UNCHANGED apiVars
    \/ rawReturns /\ UNCHANGED queueVars /\ UNCHANGED historyVars /\ UNCHANGED rawVars
    \/ rawThrows /\ UNCHANGED queueVars /\ UNCHANGED historyVars /\ UNCHANGED rawVars
    \/ validate /\ UNCHANGED queueVars /\ UNCHANGED historyVars /\ UNCHANGED rawVars
    \/ \E d \in Bodies :
          jsonDecoded(d) /\ UNCHANGED queueVars /\ UNCHANGED historyVars /\ UNCHANGED rawVars

\* A response with any status code handed to a method's checks.
NextValidate ==
    \/ validate /\ UNCHANGED queueVars /\ UNCHANGED historyVars /\ UNCHANGED rawVars
    \/ \E d \in Bodies :
          jsonDecoded(d) /\ UNCHANGED queueVars /\ UNCHANGED historyVars /\ UNCHANGED rawVars

QueueInit ==
    /\ jobs = <<>>
    /\ promise = 0
    /\ loops = <<>>
    /\ stack = <<>>
    /\ submitted = 0
    /\ appends = <<>>
    /\ started = <<>>
    /\ failures = <<>>
    /\ firstThrown = {}
    /\ called = 0

RawInit ==
    /\ rawPc = "idle"
    /\ retryCounter = 0
    /\ outcome = NoOutcome
    /\ result = NoOutcome
    /\ fetches = 0
    /\ sleeps = 0
    /\ seen = {}
    /\ calls = 0

Init == QueueInit /\ RawInit /\ ApiInit

\* A method holds a response with an arbitrary status code and is about to
\* validate it.
InitValidate ==
    /\ QueueInit
    /\ RawInit
    /\ apiPc = "validate"
    /\ expect \in Methods
    /\ responseStatus \in StatusCodes
    /\ verdict = NoVerdict
    /\ data = NoData
    /\ reply = NoVerdict

\* The queue with its observer.
Next ==
    \/ \E jobId \in JobIds :
          /\ MayAppend(MaxAppends, MaxDepth)
          /\ appendJob(jobId)
          /\ LogAppend(jobId)
          /\ LogStart(IF promise = 0 THEN Len(loops) + 1 ELSE 0)
          /\ UNCHANGED <<failures, firstThrown, called>>
          /\ UNCHANGED rawVars
          /\ UNCHANGED apiVars
    \/ /\ firstSuspension
       /\ UNCHANGED historyVars
       /\ UNCHANGED rawVars
       /\ UNCHANGED apiVars
    \/ \E l \in DOMAIN loops, ok \in BOOLEAN :
          /\ jobSettles(l, ok)
          /\ LogFailure(l, ok)
          /\ LogFirstThrown(l, ok)
          /\ LogStart(l)
          /\ UNCHANGED <<appends, called>>
          /\ UNCHANGED rawVars
          /\ UNCHANGED apiVars
    \/ \E l \in DOMAIN loops :
          /\ onEmptyQueue(l)
          /\ called' = called + 1
          /\ UNCHANGED <<appends, started, failures, firstThrown>>
          /\ UNCHANGED rawVars
          /\ UNCHANGED apiVars

Spec == Init /\ [][Next]_vars

\* Everything that is not the queue's own state.
otherVars == <<historyVars, rawVars, apiVars>>

\* The queue alone: the same steps, nothing written down.
NextQueue ==
    \/ \E jobId \in JobIds :
          MayAppend(MaxAppends, MaxDepth) /\ appendJob(jobId) /\ UNCHANGED otherVars
    \/ firstSuspension /\ UNCHANGED otherVars
    \/ \E l \in DOMAIN loops, ok \in BOOLEAN : jobSettles(l, ok) /\ UNCHANGED otherVars
    \/ \E l \in DOMAIN loops : onEmptyQueue(l) /\ UNCHANGED otherVars

SpecQueue == Init /\ [][NextQueue]_vars

\* The queue with only the first failure of each loop written down.
NextFailure ==
    \/ \E jobId \in JobIds :
          MayAppend(MaxAppends, MaxDepth) /\ appendJob(jobId) /\ UNCHANGED otherVars
    \/ firstSuspension /\ UNCHANGED otherVars
    \/ \E l \in DOMAIN loops, ok \in BOOLEAN :
          /\ jobSettles(l, ok)
          /\ LogFirstThrown(l, ok)
          /\ UNCHANGED <<appends, started, failures, called>>
          /\ UNCHANGED rawVars
          /\ UNCHANGED apiVars
    \/ \E l \in DOMAIN loops : onEmptyQueue(l) /\ UNCHANGED otherVars

SpecFailure == Init /\ [][NextFailure]_vars

\* The queue alone with one more call of appendJob and one level less of
\* nesting: enough calls for two entries to wait behind a running job and
\* one of them to be replaced.
NextReplace ==
    \/ \E jobId \in JobIds :
          MayAppend(MaxAppends + 1, MaxDepth - 1) /\ appendJob(jobId) /\ UNCHANGED otherVars
    \/ firstSuspension /\ UNCHANGED otherVars
    \/ \E l \in DOMAIN loops, ok \in BOOLEAN : jobSettles(l, ok) /\ UNCHANGED otherVars
    \/ \E l \in DOMAIN loops : onEmptyQueue(l) /\ UNCHANGED otherVars

SpecReplace == Init /\ [][NextReplace]_vars

\* One caller of sendRawRequest.
SpecRaw == Init /\ [][NextRaw]_vars

\* The checks a method makes on a response, for every status code.
SpecValidate == InitValidate /\ [][NextValidate]_vars

\* ------------------------------------------------- queue vocabulary
\* Nothing is running and nothing is scheduled to run.
Quiescent ==
    /\ stack = <<>>
    /\ \A l \in DOMAIN loops : loops[l].pc = "ended" /\ loops[l].then # "queued"

Count(seq, x) == Cardinality({i \in DOMAIN seq : seq[i] = x})

\* Position of the first execution of job j that began after `at` executions.
FirstStartAfter(j, at) == CHOOSE i \in DOMAIN started :
    /\ i > at
    /\ started[i] = j
    /\ \A k \in DOMAIN started : (k > at /\ started[k] = j) => i <= k

StartedAfter(j, at) == \E i \in DOMAIN started : i > at /\ started[i] = j

\* A later appendJob call replaced job j while it was in the mapping.
Replaced(j) == \E i \in DOMAIN appends : appends[i].prev = j

\* The first n appendJob calls were made back to back on a queue that was
\* idle and had never run anything: top-level calls, with no job settling
\* between them (the loop the first call started is still on its first job).
BackToBack(n) ==
    /\ Len(appends) >= n
    /\ appends[1].idle
    /\ \A i \in 1..n : appends[i].depth = 0
    /\ \A i \in 2..n : ~appends[i].idle /\ appends[i].nStarted = 1

\* ------------------------------------------------- claims: Queue

\* C1: at most one job body is executing (started, not yet completed) in
\* every reachable state, also when appendJob is called from inside a job
\* body before that body's first suspension.
SingleFlight == Cardinality(ExecutingLoops) <= 1

\* C2: if appendJob(K, j1) and then appendJob(K, j2) are both called before
\* any job under K has started executing (K is not executing at either call
\* and j1 has not begun), then j1 is never executed, j2 is never executed
\* twice, and once the queue has drained (no later appendJob under K) j2 has
\* been executed exactly once.
Coalescing ==
    \A i \in DOMAIN appends :
        LET a == appends[i] IN
        (/\ a.prev # 0
         /\ ~a.prevStarted
         /\ a.key \notin a.running
         /\ a.key \notin appends[a.prev].running)
        => /\ ~HasStarted(a.prev)
           /\ Count(started, a.job) <= 1
           /\ (Quiescent /\ (\A k \in DOMAIN appends : k > i => appends[k].key # a.key))
                  => Count(started, a.job) = 1

\* C3: on an idle queue, appendJob("mr-42", j1), appendJob("mr-42", j2),
\* appendJob("mr-43", j3) back to back: once everything has drained, the body
\* executed for "mr-42" is j2, exactly once, then j3 exactly once, and the
\* completion callback has fired exactly once.
ExampleScenario ==
    (/\ Len(appends) = 3
     /\ BackToBack(3)
     /\ appends[1].key = MR42
     /\ appends[2].key = MR42
     /\ appends[3].key = MR43
     /\ failures = <<>>
     /\ Quiescent)
    => (started = <<2, 3>> /\ called = 1)

\* C4: jobs appended back to back under pairwise distinct keys A, B, C (any
\* key strings), no further appends, no failing job: the bodies run in the
\* order A, B, C, each exactly once, then the callback fires exactly once.
FifoDrain ==
    (/\ Len(appends) = 3
     /\ BackToBack(3)
     /\ Cardinality({appends[i].key : i \in 1..3}) = 3
     /\ failures = <<>>
     /\ Quiescent)
    => (started = <<1, 2, 3>> /\ called = 1)

\* C5: a job appended under key K while a job under K is executing, and not
\* itself replaced later, has been executed by the time the queue has drained.
SameKeyAppendRuns ==
    Quiescent =>
        \A i \in DOMAIN appends :
            (appends[i].key \in appends[i].running /\ ~Replaced(appends[i].job))
                => HasStarted(appends[i].job)

\* C6: when a job body throws, every job pending under a different key at
\* that moment (and not replaced later) is executed afterwards, and these
\* jobs are executed in the order in which they were appended.
LivenessUnderFailure ==
    Quiescent =>
        \A f \in DOMAIN failures :
            LET after == {e.job : e \in {p \in failures[f].pending : ~Replaced(p.job)}} IN
            /\ \A j \in after : StartedAfter(j, failures[f].at)
            /\ \A j1, j2 \in after :
                   (j1 < j2 /\ StartedAfter(j1, failures[f].at)
                            /\ StartedAfter(j2, failures[f].at))
                       => FirstStartAfter(j1, failures[f].at)
                              < FirstStartAfter(j2, failures[f].at)

\* C7: once the queue has drained, onEmptyQueue has been invoked exactly
\* once for every drain cycle (every drain loop that ran to its end),
\* whether or not a job body failed in that cycle.
CallbackOncePerCycle == Quiescent => called = Len(loops)

\* C8: whenever no drain loop is executing a job the queue is Idle (promise
\* unset, mapping empty), also after a cycle in which a body threw; a drain
\* loop that ends leaves the queue in that state; and an appendJob made when
\* no loop is running starts a loop that executes the appended job.
IdleWhenNoLoop == ExecutingLoops = {} => (promise = 0 /\ jobs = <<>>)

LoopEndsIdle ==
    \A l \in DOMAIN loops :
        (loops[l].pc # "ended" /\ loops'[l].pc = "ended") => (promise' = 0 /\ jobs' = <<>>)

AppendOnIdleRuns ==
    (ExecutingLoops = {} /\ submitted' = submitted + 1)
        => \E l \in DOMAIN loops' :
               /\ l \notin DOMAIN loops
               /\ loops'[l].pc = "prefix"
               /\ loops'[l].job = submitted'

RetryExhaustion ==
    /\ (rawPc \in {"returned", "thrown"} /\ seen \subseteq {"server-error", "transient"})
           => (rawPc = "thrown" /\ fetches = numberOfRequestRetries
                                /\ sleeps = numberOfRequestRetries - 1)
    /\ (rawPc = "sleep" => (sleeps = fetches /\ fetches < numberOfRequestRetries))
    /\ (rawPc \in {"fetch", "returned", "thrown"} => sleeps = fetches - 1)

\* C9 witness: a call has failed after a mix of 5xx responses and transient
\* errors, the last attempt being a 5xx response.
ExhaustedByMix ==
    /\ rawPc = "thrown"
    /\ seen = {"server-error", "transient"}
    /\ fetches = numberOfRequestRetries
    /\ sleeps = numberOfRequestRetries - 1
    /\ result = StatusError(503)

\* C10: an attempt is followed by a sleep and another attempt iff fewer than
\* 20 attempts have been made and it ended in a status >= 500 or a transient
\* transport error; a response with status < 500 is returned from that
\* attempt and any other transport error is thrown from that attempt, with
\* no sleep and no further attempt.
RetryOnlyRetryable ==
    [][/\ (rawPc = "fetch" /\ rawPc' # "fetch")
           => /\ (rawPc' = "sleep")
                     <=> (fetches < numberOfRequestRetries /\ Retryable(outcome'))
              /\ (Class(outcome') = "response")
                     => (rawPc' = "returned" /\ result' = outcome' /\ sleeps' = sleeps)
              /\ (Class(outcome') = "other-error")
                     => (rawPc' = "thrown" /\ result' = outcome' /\ sleeps' = sleeps)
       /\ (rawPc = "sleep" /\ rawPc' # "sleep")
           => (rawPc' = "fetch" /\ fetches' = fetches + 1 /\ calls' = calls)
       /\ (rawPc \in {"returned", "thrown"} /\ calls' = calls)
           => (fetches' = fetches /\ sleeps' = sleeps /\ rawPc' = rawPc)
      ]_vars

\* C10 witness: a 403 arrived after retries and was returned at once.
ForbiddenReturnedAfterRetries ==
    /\ rawPc = "returned"
    /\ result = Response(403)
    /\ fetches = 3
    /\ sleeps = 2

\* C11: when every earlier attempt of a call returned a status >= 500 (N of
\* them, N < 20) each was followed by a sleep and a retry, and when the next
\* attempt returns a status in [200,300) the call returns that response at
\* once: N + 1 attempts, N sleeps.
RecoveryAfterServerErrors ==
    [][(rawPc = "fetch" /\ rawPc' # "fetch" /\ seen \subseteq {"server-error"})
          => /\ fetches <= numberOfRequestRetries
             /\ (Class(outcome') = "server-error" /\ fetches < numberOfRequestRetries)
                    => (rawPc' = "sleep" /\ sleeps' = fetches)
             /\ (outcome'.kind = "response" /\ outcome'.status >= 200
                                            /\ outcome'.status < 300)
                    => /\ rawPc' = "returned"
                       /\ result' = outcome'
                       /\ fetches' = fetches
                       /\ sleeps' = fetches - 1
      ]_vars

\* C11 witness: 19 attempts returned a status >= 500 and the 20th returned
\* 200, which the call returned.
RecoveredAtLastAttempt ==
    /\ rawPc = "returned"
    /\ seen = {"server-error", "response"}
    /\ result = Response(200)
    /\ fetches = numberOfRequestRetries
    /\ sleeps = numberOfRequestRetries - 1

\* C12: validateResponseStatus classifies a response by its status code alone
\* and decides for every status code: 401 throws 'Unauthorized', 403 throws
\* 'Forbidden', any other status below 200 or from 300 up throws 'Unexpected
\* status code' naming that status, and every status in [200,300) is accepted,
\* so that the method goes on to its next step exactly for those.
StatusClassification ==
    apiPc # "validate" =>
        /\ verdict # NoVerdict
        /\ responseStatus = 401 => verdict = Failure("Unauthorized")
        /\ responseStatus = 403 => verdict = Failure("Forbidden")
        /\ (responseStatus \notin {401, 403} /\ (responseStatus < 200 \/ responseStatus >= 300))
               => verdict = UnexpectedStatus(responseStatus)
        /\ (responseStatus >= 200 /\ responseStatus < 300) => verdict = Valid
        /\ verdict # Valid => (apiPc = "thrown" /\ reply = verdict /\ data = NoData)
        /\ (verdict = Valid /\ data = NoData)
               => IF expect = "status" THEN apiPc = "returned" ELSE apiPc = "json"

\* C12 witness: the first status above the accepted range has been rejected
\* as unexpected.
MultipleChoicesRejected ==
    /\ apiPc = "thrown"
    /\ responseStatus = 300
    /\ verdict = UnexpectedStatus(300)

\* C13: once the status is accepted, the single-object method returns the
\* decoded body when it is an object and throws 'Invalid response' otherwise,
\* and the list method returns the body when it is an array and throws
\* 'Invalid response' otherwise.
PayloadShape ==
    (apiPc \in {"returned", "thrown"} /\ data # NoData) =>
        /\ expect = "single" =>
              IF data.type = "object"
              THEN apiPc = "returned" /\ reply = [error |-> "none", data |-> data]
              ELSE apiPc = "thrown" /\ reply = Failure("Invalid response")
        /\ expect = "multi" =>
              IF data.type = "array"
              THEN apiPc = "returned" /\ reply = [error |-> "none", data |-> data]
              ELSE apiPc = "thrown" /\ reply = Failure("Invalid response")

\* C14: appendJob is non-blocking: no job body starts executing before the
\* appendJob call that enqueued it has returned, so no job body is ever
\* running its synchronous part inside an appendJob call that is still in
\* progress, also when the queue was idle at the time of the call.
AppendJobNonBlocking ==
    \A i \in DOMAIN stack : stack[i].kind # "append"

\* C15: dequeue-before-execute: in every state in which a job body is
\* executing, the mapping holds no entry for that execution (the key was
\* removed before the body started).
DequeueBeforeExecute ==
    \A l \in ExecutingLoops : \A i \in DOMAIN jobs : jobs[i].job # loops[l].job

\* C16: when job bodies throw during a drain cycle, the cycle's promise is
\* rejected with the error of the first job that threw (and is rejected only
\* then); once rejected, later failures and the final resolve leave the
\* outcome as it is; and the loop goes on after a failure, ending only in a
\* step that leaves the mapping empty.
FirstFailureLatched ==
    \A l \in DOMAIN loops :
        /\ \A t \in firstThrown :
               t.loop = l => (loops[l].state = "rejected" /\ loops[l].error = t.job)
        /\ loops[l].state = "rejected" => \E t \in firstThrown : t.loop = l

OutcomeKept ==
    \A l \in DOMAIN loops :
        loops[l].state = "rejected"
            => (loops'[l].state = "rejected" /\ loops'[l].error = loops[l].error)

RejectedLoopRunsOn ==
    \A l \in DOMAIN loops :
        (loops'[l].state = "rejected" /\ loops[l].pc = "awaiting" /\ loops'[l].pc # "awaiting")
            => IF jobs' = <<>> THEN loops'[l].pc = "ended" ELSE loops'[l].pc = "prefix"

DrainCycleFailureSignal ==
    [](FirstFailureLatched) /\ [][OutcomeKept /\ RejectedLoopRunsOn]_vars

\* C16 witness: a loop whose promise was rejected by its first job is past
\* that job and executing a later one.
RejectedLoopStillDraining ==
    \E l \in DOMAIN loops :
        /\ loops[l].pc = "awaiting"
        /\ loops[l].state = "rejected"
        /\ loops[l].error = 1
        /\ loops[l].job > 1
        /\ [loop |-> l, job |-> 1] \in firstThrown

\* C17: no stranded work: whenever this.promise is unset and no appendJob
\* call is in progress the mapping is empty; whenever the mapping is
\* non-empty a drain loop is executing, and the loop this.promise names is
\* one; a drain loop ends only in a step that leaves the mapping empty; and
\* every appendJob leaves its job in the mapping with a loop executing.
LoopForPendingWork ==
    /\ (promise = 0 /\ \A i \in DOMAIN stack : stack[i].kind # "append") => jobs = <<>>
    /\ jobs # <<>> => ExecutingLoops # {}
    /\ promise # 0 => (promise \in DOMAIN loops /\ Executing(promise))

AppendFindsLoop ==
    submitted' = submitted + 1
        => /\ \E i \in DOMAIN jobs' : jobs'[i].job = submitted'
           /\ \E l \in DOMAIN loops' : loops'[l].pc \in {"prefix", "awaiting"}
           /\ (promise' = 0 => \E i \in DOMAIN stack' : stack'[i].kind = "append")

LoopLeavesNothing ==
    \A l \in DOMAIN loops :
        (loops[l].pc # "ended" /\ loops'[l].pc = "ended") => jobs' = <<>>

NoServerErrorReturned ==
    /\ rawPc = "returned" => (result.kind = "response" /\ result.status < 500)
    /\ (rawPc \in {"returned", "thrown"} /\ fetches = numberOfRequestRetries
            /\ outcome.kind = "response" /\ outcome.status >= 500)
           => (rawPc = "thrown" /\ result = StatusError(outcome.status))
    /\ apiPc \notin {"idle", "await"} /\ responseStatus # 0 => responseStatus < 500
    /\ verdict # NoVerdict => (responseStatus # 0 /\ responseStatus < 500)

\* C18 witness: the 20th attempt of a method's request yielded a 500; the
\* call threw and the method failed without validating any response.
MethodFailedOnLastServerError ==
    /\ rawPc = "thrown"
    /\ fetches = numberOfRequestRetries
    /\ outcome = Response(500)
    /\ result = StatusError(500)
    /\ apiPc = "thrown"
    /\ verdict = NoVerdict

\* C19: at the moment the onEmptyQueue callback is invoked the pending
\* mapping is empty and no job body is executing, whatever appendJob calls
\* were interleaved with the end of the drain loop.
CallbackOnDrainedQueue ==
    [][(\E l \in DOMAIN loops : loops[l].then = "queued" /\ loops'[l].then = "called")
           => (jobs = <<>> /\ ExecutingLoops = {})]_vars

\* C20: replacing a pending job keeps the key's place in line: an appendJob
\* on a key that is in the mapping leaves the order of the keys and the other
\* entries as they were and puts the new job under the key; no step changes
\* the relative order of two keys that stay in the mapping; and a drain loop
\* that starts a job takes the first key in line and the job then stored
\* under it.  So with K1 before K2, K1 runs before K2 and runs j'.
ReplacementInPlace ==
    \A k \in JobIds :
        (submitted' = submitted + 1 /\ HasKey(jobs, k) /\ Lookup(jobs', k) = submitted')
            => /\ KeysOf(jobs') = KeysOf(jobs)
               /\ ObjectKeys(jobs') = ObjectKeys(jobs)
               /\ \A o \in JobIds \ {k} :
                      HasKey(jobs, o) => Lookup(jobs', o) = Lookup(jobs, o)

PlaceInLineKept ==
    jobs' # jobs =>
        LET line == ObjectKeys(jobs)
            lineAfter == ObjectKeys(jobs')
        IN  SelectSeq(line, LAMBDA k : HasKey(jobs', k))
                = SelectSeq(lineAfter, LAMBDA k : HasKey(jobs, k))

StartsHeadOfLine ==
    \A l \in DOMAIN loops' :
        (loops'[l].pc = "prefix" /\ (l \in DOMAIN loops => loops[l].pc = "awaiting"))
            => /\ loops'[l].key = ObjectKeys(jobs')[1]
               /\ loops'[l].job = Lookup(jobs', loops'[l].key)

ReplacementKeepsPlace ==
    [][ReplacementInPlace /\ PlaceInLineKept /\ StartsHeadOfLine]_vars

\* C20 witness: behind a running job, MR42 and then MR43 were appended and
\* MR42 was replaced last; the one drain loop has gone on to MR42 and runs
\* the replacement while MR43's older entry still waits.
ReplacementRunsBeforeLater ==
    /\ Len(loops) = 1
    /\ loops[1].pc = "awaiting"
    /\ loops[1].key = MR42
    /\ loops[1].job = MaxAppends + 1
    /\ HasKey(jobs, MR43)
    /\ Lookup(jobs, MR43) = MaxAppends

====
